---- MODULE Spec2Model ----
(***************************************************************************)
(* url-audit: the bounded-concurrency fetch engine of src/main.rs.         *)
(*                                                                         *)
(* main() builds one HTTP client, loads the URL column of a CSV file,      *)
(* spawns one tokio task per URL behind a semaphore of `concurrency`       *)
(* permits, awaits the join handles in spawn order and writes the rows.    *)
(* fetch_row() races one GET against a timeout and folds every outcome     *)
(* into one OutRow.                                                        *)
(*                                                                         *)
(* The network, the timers and panics inside a task are the environment:   *)
(* each is a nondeterministic action.                                      *)
(***************************************************************************)
EXTENDS Integers, Sequences, FiniteSets, TLC

VARIABLES
    pc,          \* position of main(): build, read, acquire, spawn, collect, write, exit
    ret,         \* what main() returned: "running", "Ok" or the error context
    rows,        \* the `url` column of the input CSV, row by row
    concurrency, \* args.concurrency
    client,      \* the reqwest client has been built
    urls,        \* Vec<String> urls, as loaded
    sem,         \* available permits of the semaphore; None before it exists
    permit,      \* main holds an acquired permit not yet moved into a task
    tasks,       \* the spawned tasks, in spawn order
    env,         \* per task: its HTTP exchange, its timer, faults
    joined,      \* how many join handles the collect loop has consumed
    out,         \* Vec<OutRow> out
    written      \* content of the output file; None while not written

vars == <<pc, ret, rows, concurrency, client, urls, sem, permit, tasks, env, joined, out, written>>

----------------------------------------------------------------------------
(* Bounds of the model *)

MaxRows == 2
MaxConc == 2

(* Values the environment may supply *)

RowValues == {"a", "b", " "}
TransportErrors == {"connection refused"}

----------------------------------------------------------------------------
(* Option<T> *)

None == <<>>
Some(v) == <<v>>
IsSome(o) == o # None
Unwrap(o) == o[1]

(* Result<T, E> *)

Ok(v) == <<"Ok", v>>
Err(e) == <<"Err", e>>
IsOk(r) == r[1] = "Ok"

----------------------------------------------------------------------------
(* Strings read as character sequences where the code inspects them *)

Whitespace == {" "}

\* str::trim().is_empty() on the bounded row values
TrimIsEmpty(s) == s = "" \/ s \in Whitespace

DigitVal == [c \in {"0", "1", "2", "3", "4", "5", "6", "7", "8", "9"} |->
               CASE c = "0" -> 0 [] c = "1" -> 1 [] c = "2" -> 2 [] c = "3" -> 3
                 [] c = "4" -> 4 [] c = "5" -> 5 [] c = "6" -> 6 [] c = "7" -> 7
                 [] c = "8" -> 8 [] c = "9" -> 9]

VisibleAscii == DOMAIN DigitVal \cup {"+", "-", "x"}

\* A Content-Length header: absent, or its bytes
NoHeader == [present |-> FALSE, bytes |-> <<>>]
Header(b) == [present |-> TRUE, bytes |-> b]

\* HeaderValue::to_str().ok(): the bytes as a str when all are visible ASCII
ToStr(b) == IF \A i \in 1..Len(b) : b[i] \in VisibleAscii THEN Some(b) ELSE None

RECURSIVE DigitsValue(_)
DigitsValue(d) ==
    IF d = <<>> THEN 0
    ELSE 10 * DigitsValue(SubSeq(d, 1, Len(d) - 1)) + DigitVal[d[Len(d)]]

\* str::parse::<u64>().ok(): an optional leading '+', then one or more digits
ParseU64(s) ==
    LET digits == IF s # <<>> /\ s[1] = "+" THEN Tail(s) ELSE s
    IN  IF digits = <<>> THEN None
        ELSE IF \A i \in 1..Len(digits) : digits[i] \in DOMAIN DigitVal
             THEN Some(DigitsValue(digits))
             ELSE None

\* headers().get(CONTENT_LENGTH).and_then(to_str).and_then(parse)
ContentLength(h) ==
    IF ~h.present THEN None
    ELSE LET s == ToStr(h.bytes)
         IN  IF IsSome(s) THEN ParseU64(Unwrap(s)) ELSE None

----------------------------------------------------------------------------
(* OutRow and the Fetch Worker *)

OutRow(url, status, len, error) ==
    [url |-> url, status |-> status, len |-> len, error |-> error]

NoResponse == [status |-> 0, headers |-> NoHeader]
Responses ==
    {[status |-> 200, headers |-> Header(<<"1", "0">>)],
     [status |-> 200, headers |-> Header(<<"-", "1">>)],
     [status |-> 404, headers |-> NoHeader]}

\* The exchange of one task as the environment drives it
IdleExchange ==
    [state |-> "idle", resp |-> NoResponse, err |-> "", timer |-> "off",
     late |-> FALSE, fault |-> FALSE, sent |-> 0]

\* fut with the transport error arm also reporting a status
fut_StatusOnError(url, ex) ==
    IF ex.state = "ok"
    THEN OutRow(url, Some(ex.resp.status), ContentLength(ex.resp.headers), None)
    ELSE OutRow(url, Some(0), None, Some(ex.err))

\* fut with the transport error arm reporting a length of zero
fut_LenOnError(url, ex) ==
    IF ex.state = "ok"
    THEN OutRow(url, Some(ex.resp.status), ContentLength(ex.resp.headers), None)
    ELSE OutRow(url, None, Some(0), Some(ex.err))

\* the inner future `fut`: the settled exchange as a row
fut(url, ex) ==
    IF ex.state = "ok"
    THEN OutRow(url, Some(ex.resp.status), ContentLength(ex.resp.headers), None)
    ELSE OutRow(url, None, None, Some(ex.err))

\* fetch_row with the timeout arm reporting a 408 status instead of the sentinel
fetch_row_TimeoutAsStatus(url, ex) ==
    IF ex.state \in {"ok", "err"}
    THEN fut(url, ex)
    ELSE OutRow(url, Some(408), None, None)

\* fetch_row with the timer looked at first: an elapsed timer wins over a
\* settled exchange
fetch_row_TimerFirst(url, ex) ==
    IF ex.timer # "elapsed" /\ ex.state \in {"ok", "err"}
    THEN fut(url, ex)
    ELSE OutRow(url, None, None, Some("timeout"))

\* fetch_row without the clone kept for the timeout arm
fetch_row_TimeoutLosesUrl(url, ex) ==
    LET url_for_timeout == ""
    IN  IF ex.state \in {"ok", "err"}
        THEN fut(url, ex)
        ELSE OutRow(url_for_timeout, None, None, Some("timeout"))

\* tokio::time::timeout polls `fut` first: a settled exchange wins over an
\* elapsed timer
fetch_row(url, ex) ==
    LET url_for_timeout == url
    IN  IF ex.state \in {"ok", "err"}
        THEN fut(url, ex)
        ELSE OutRow(url_for_timeout, None, None, Some("timeout"))

\* JoinRow with the url field left empty instead of the sentinel
JoinRow_NoSentinel(res) ==
    IF IsOk(res) THEN res[2]
    ELSE OutRow("", None, None, Some("join error: " \o res[2]))

\* the row main() pushes for a joined task
JoinRow(res) ==
    IF IsOk(res) THEN res[2]
    ELSE OutRow("<join-error>", None, None, Some("join error: " \o res[2]))

----------------------------------------------------------------------------
(* Helpers over the state *)

RECURSIVE LoadRows(_)
\* the CSV loop: keep the rows whose url is not blank
LoadRows(rs) ==
    IF rs = <<>> THEN <<>>
    ELSE IF TrimIsEmpty(Head(rs)) THEN LoadRows(Tail(rs))
         ELSE <<Head(rs)>> \o LoadRows(Tail(rs))

RowSeqs == UNION {[1..n -> RowValues] : n \in 0..MaxRows}

Running(i) == tasks[i].state \in {"spawned", "sending"}
InFlight == {i \in 1..Len(tasks) : Running(i)}
Available == IF IsSome(sem) THEN Unwrap(sem) ELSE 0

----------------------------------------------------------------------------
Init ==
    /\ pc = "build"
    /\ ret = "running"
    /\ rows \in RowSeqs
    /\ concurrency \in 0..MaxConc
    /\ client = FALSE
    /\ urls = <<>>
    /\ sem = None
    /\ permit = FALSE
    /\ tasks = <<>>
    /\ env = <<>>
    /\ joined = 0
    /\ out = <<>>
    /\ written = None

(* main(): setup *)

BuildClient ==
    /\ pc = "build"
    /\ client' = TRUE
    /\ pc' = "read"
    /\ UNCHANGED <<ret, rows, concurrency, urls, sem, permit, tasks, env, joined, out, written>>

\* BuildClientFails with the client built lazily, inside the dispatch loop
BuildClientFails_Late ==
    /\ pc = "acquire"
    /\ pc' = "exit"
    /\ ret' = "building HTTP client"
    /\ UNCHANGED <<rows, concurrency, client, urls, sem, permit, tasks, env, joined, out, written>>

BuildClientFails ==
    /\ pc = "build"
    /\ pc' = "exit"
    /\ ret' = "building HTTP client"
    /\ UNCHANGED <<rows, concurrency, client, urls, sem, permit, tasks, env, joined, out, written>>

\* LoadUrls with one permit more than the limit
LoadUrls_ExtraPermit ==
    /\ pc = "read"
    /\ urls' = LoadRows(rows)
    /\ sem' = Some(concurrency + 1)
    /\ tasks' = <<>>
    /\ pc' = "acquire"
    /\ UNCHANGED <<ret, rows, concurrency, client, permit, env, joined, out, written>>

\* LoadUrls with the limit validated: a limit of zero is raised to one
LoadUrls_ClampsLimit ==
    /\ pc = "read"
    /\ urls' = LoadRows(rows)
    /\ sem' = Some(IF concurrency = 0 THEN 1 ELSE concurrency)
    /\ tasks' = <<>>
    /\ pc' = "acquire"
    /\ UNCHANGED <<ret, rows, concurrency, client, permit, env, joined, out, written>>

LoadUrls ==
    /\ pc = "read"
    /\ urls' = LoadRows(rows)
    /\ sem' = Some(concurrency)
    /\ tasks' = <<>>
    /\ pc' = "acquire"
    /\ UNCHANGED <<ret, rows, concurrency, client, permit, env, joined, out, written>>

LoadUrlsFails ==
    /\ pc = "read"
    /\ pc' = "exit"
    /\ \E e \in {"opening CSV", "parsing CSV row"} : ret' = e
    /\ UNCHANGED <<rows, concurrency, client, urls, sem, permit, tasks, env, joined, out, written>>

(* main(): the dispatch loop *)

\* Acquire without waiting for a free permit
Acquire_NoGate ==
    /\ pc = "acquire"
    /\ Len(tasks) < Len(urls)
    /\ sem' = IF Available > 0 THEN Some(Available - 1) ELSE sem
    /\ permit' = (Available > 0)
    /\ pc' = "spawn"
    /\ UNCHANGED <<ret, rows, concurrency, client, urls, tasks, env, joined, out, written>>

\* Acquire holding back while only one permit is free
Acquire_KeepsSpare ==
    /\ pc = "acquire"
    /\ Len(tasks) < Len(urls)
    /\ Available > 1
    /\ sem' = Some(Available - 1)
    /\ permit' = TRUE
    /\ pc' = "spawn"
    /\ UNCHANGED <<ret, rows, concurrency, client, urls, tasks, env, joined, out, written>>

Acquire ==
    /\ pc = "acquire"
    /\ Len(tasks) < Len(urls)
    /\ Available > 0
    /\ sem' = Some(Available - 1)
    /\ permit' = TRUE
    /\ pc' = "spawn"
    /\ UNCHANGED <<ret, rows, concurrency, client, urls, tasks, env, joined, out, written>>

Spawn ==
    /\ pc = "spawn"
    /\ tasks' = Append(tasks, [state |-> "spawned", url |-> urls[Len(tasks) + 1],
                               permit |-> permit, output |-> None])
    /\ env' = Append(env, IdleExchange)
    /\ permit' = FALSE
    /\ pc' = "acquire"
    /\ UNCHANGED <<ret, rows, concurrency, client, urls, sem, joined, out, written>>

EndDispatch ==
    /\ pc = "acquire"
    /\ Len(tasks) = Len(urls)
    /\ out' = <<>>
    /\ pc' = "collect"
    /\ UNCHANGED <<ret, rows, concurrency, client, urls, sem, permit, tasks, env, joined, written>>

(* The spawned task *)

\* first poll: fetch_row sends the request and arms the timeout
TaskStart(i) ==
    /\ tasks[i].state = "spawned"
    /\ tasks' = [tasks EXCEPT ![i].state = "sending"]
    /\ env' = [env EXCEPT ![i].state = "inflight", ![i].timer = "armed",
                          ![i].sent = @ + 1]
    /\ UNCHANGED <<pc, ret, rows, concurrency, client, urls, sem, permit, joined, out, written>>

\* the task's future is dropped: a request still in flight is abandoned, a
\* response it held is discarded, its timer is cancelled
DropExchange(ex, keep) ==
    [ex EXCEPT !.state = IF @ = "inflight" THEN "abandoned"
                         ELSE IF keep \/ @ = "idle" THEN @ ELSE "closed",
               !.resp = IF keep THEN @ ELSE NoResponse,
               !.err = IF keep THEN @ ELSE "",
               !.timer = "off"]

\* Exit with the permit forgotten instead of dropped
Exit_LeaksPermit(i, res) ==
    /\ tasks' = [tasks EXCEPT ![i].state = "exited", ![i].output = Some(res)]
    /\ sem' = sem

\* the future leaves the task: its permit is dropped, its output stored
Exit(i, res) ==
    /\ tasks' = [tasks EXCEPT ![i].state = "exited", ![i].permit = FALSE,
                              ![i].output = Some(res)]
    /\ sem' = IF tasks[i].permit THEN Some(Available + 1) ELSE sem

\* TaskReturn with the send error unwrapped instead of matched
TaskReturn_Propagates(i) ==
    /\ tasks[i].state = "sending"
    /\ env[i].state \in {"ok", "err"} \/ env[i].timer = "elapsed"
    /\ Exit(i, IF env[i].state = "err" THEN Err("task panicked")
               ELSE Ok(fetch_row(tasks[i].url, env[i])))
    /\ env' = [env EXCEPT ![i] = DropExchange(@, TRUE)]
    /\ UNCHANGED <<pc, ret, rows, concurrency, client, urls, permit, joined, out, written>>

\* TaskReturn with one retry of a request that failed in transport
TaskReturn_Retries(i) ==
    /\ tasks[i].state = "sending"
    /\ env[i].state \in {"ok", "err"} \/ env[i].timer = "elapsed"
    /\ IF env[i].state = "err" /\ env[i].sent < 2
       THEN /\ env' = [env EXCEPT ![i].state = "inflight", ![i].err = "",
                                  ![i].sent = @ + 1]
            /\ UNCHANGED <<tasks, sem>>
       ELSE /\ Exit(i, Ok(fetch_row(tasks[i].url, env[i])))
            /\ env' = [env EXCEPT ![i] = DropExchange(@, TRUE)]
    /\ UNCHANGED <<pc, ret, rows, concurrency, client, urls, permit, joined, out, written>>

\* last poll: fetch_row returns its row
TaskReturn(i) ==
    /\ tasks[i].state = "sending"
    /\ env[i].state \in {"ok", "err"} \/ env[i].timer = "elapsed"
    /\ Exit(i, Ok(fetch_row(tasks[i].url, env[i])))
    /\ env' = [env EXCEPT ![i] = DropExchange(@, TRUE)]
    /\ UNCHANGED <<pc, ret, rows, concurrency, client, urls, permit, joined, out, written>>

\* TaskPanic with the permit not released on the panic path
TaskPanic_KeepsPermit(i) ==
    /\ Running(i)
    /\ tasks' = [tasks EXCEPT ![i].state = "exited",
                              ![i].output = Some(Err("task panicked"))]
    /\ sem' = sem
    /\ env' = [env EXCEPT ![i] = [DropExchange(@, FALSE) EXCEPT !.fault = TRUE]]
    /\ UNCHANGED <<pc, ret, rows, concurrency, client, urls, permit, joined, out, written>>

\* a poll of the task panics: the future is dropped while unwinding
TaskPanic(i) ==
    /\ Running(i)
    /\ Exit(i, Err("task panicked"))
    /\ env' = [env EXCEPT ![i] = [DropExchange(@, FALSE) EXCEPT !.fault = TRUE]]
    /\ UNCHANGED <<pc, ret, rows, concurrency, client, urls, permit, joined, out, written>>

\* the runtime publishes the stored output to the JoinHandle
TaskComplete(i) ==
    /\ tasks[i].state = "exited"
    /\ tasks' = [tasks EXCEPT ![i].state = "complete"]
    /\ UNCHANGED <<pc, ret, rows, concurrency, client, urls, sem, permit, env, joined, out, written>>

(* The environment of a task *)

Respond(i, r) ==
    /\ env[i].state = "inflight"
    /\ env' = [env EXCEPT ![i].state = "ok", ![i].resp = r]
    /\ UNCHANGED <<pc, ret, rows, concurrency, client, urls, sem, permit, tasks, joined, out, written>>

TransportFails(i, e) ==
    /\ env[i].state = "inflight"
    /\ env' = [env EXCEPT ![i].state = "err", ![i].err = e]
    /\ UNCHANGED <<pc, ret, rows, concurrency, client, urls, sem, permit, tasks, joined, out, written>>

TimerElapses(i) ==
    /\ env[i].timer = "armed"
    /\ tasks[i].state = "sending"
    /\ env' = [env EXCEPT ![i].timer = "elapsed"]
    /\ UNCHANGED <<pc, ret, rows, concurrency, client, urls, sem, permit, tasks, joined, out, written>>

\* the server answers an exchange the task has already abandoned
LateResponse(i) ==
    /\ env[i].state = "abandoned"
    /\ ~env[i].late
    /\ env' = [env EXCEPT ![i].late = TRUE]
    /\ UNCHANGED <<pc, ret, rows, concurrency, client, urls, sem, permit, tasks, joined, out, written>>

(* main(): the collect loop and the output *)

\* Await with an empty Err arm: a join error pushes nothing
Await_SkipsJoinError ==
    /\ pc = "collect"
    /\ joined < Len(tasks)
    /\ tasks[joined + 1].state = "complete"
    /\ joined' = joined + 1
    /\ out' = IF IsOk(Unwrap(tasks[joined + 1].output))
              THEN Append(out, JoinRow(Unwrap(tasks[joined + 1].output)))
              ELSE out
    /\ UNCHANGED <<pc, ret, rows, concurrency, client, urls, sem, permit, tasks, env, written>>

\* Await with `t.await?`: a join error ends main
Await_Propagates ==
    /\ pc = "collect"
    /\ joined < Len(tasks)
    /\ tasks[joined + 1].state = "complete"
    /\ joined' = joined + 1
    /\ IF IsOk(Unwrap(tasks[joined + 1].output))
       THEN /\ out' = Append(out, JoinRow(Unwrap(tasks[joined + 1].output)))
            /\ UNCHANGED <<pc, ret>>
       ELSE /\ pc' = "exit"
            /\ ret' = "join error"
            /\ UNCHANGED out
    /\ UNCHANGED <<rows, concurrency, client, urls, sem, permit, tasks, env, written>>

\* Await taking the handles from the back of `tasks`
Await_FromBack ==
    /\ pc = "collect"
    /\ joined < Len(tasks)
    /\ tasks[Len(tasks) - joined].state = "complete"
    /\ joined' = joined + 1
    /\ out' = Append(out, JoinRow(Unwrap(tasks[Len(tasks) - joined].output)))
    /\ UNCHANGED <<pc, ret, rows, concurrency, client, urls, sem, permit, tasks, env, written>>

Await ==
    /\ pc = "collect"
    /\ joined < Len(tasks)
    /\ tasks[joined + 1].state = "complete"
    /\ joined' = joined + 1
    /\ out' = Append(out, JoinRow(Unwrap(tasks[joined + 1].output)))
    /\ UNCHANGED <<pc, ret, rows, concurrency, client, urls, sem, permit, tasks, env, written>>

\* EndCollect leaving the loop before every handle is awaited
EndCollect_Early ==
    /\ pc = "collect"
    /\ pc' = "write"
    /\ UNCHANGED <<ret, rows, concurrency, client, urls, sem, permit, tasks, env, joined, out, written>>

EndCollect ==
    /\ pc = "collect"
    /\ joined = Len(tasks)
    /\ pc' = "write"
    /\ UNCHANGED <<ret, rows, concurrency, client, urls, sem, permit, tasks, env, joined, out, written>>

WriteOutput ==
    /\ pc = "write"
    /\ written' = Some(out)
    /\ ret' = "Ok"
    /\ pc' = "exit"
    /\ UNCHANGED <<rows, concurrency, client, urls, sem, permit, tasks, env, joined, out>>

WriteOutputFails ==
    /\ pc = "write"
    /\ ret' = "writing output"
    /\ pc' = "exit"
    /\ UNCHANGED <<rows, concurrency, client, urls, sem, permit, tasks, env, joined, out, written>>

----------------------------------------------------------------------------
Units == 1..Len(tasks)

Next ==
    \/ BuildClient
    \/ BuildClientFails
    \/ LoadUrls
    \/ LoadUrlsFails
    \/ Acquire
    \/ Spawn
    \/ EndDispatch
    \/ \E i \in Units : TaskStart(i)
    \/ \E i \in Units : TaskReturn(i)
    \/ \E i \in Units : TaskPanic(i)
    \/ \E i \in Units : TaskComplete(i)
    \/ \E i \in Units : \E r \in Responses : Respond(i, r)
    \/ \E i \in Units : \E e \in TransportErrors : TransportFails(i, e)
    \/ \E i \in Units : TimerElapses(i)
    \/ \E i \in Units : LateResponse(i)
    \/ Await
    \/ EndCollect
    \/ WriteOutput
    \/ WriteOutputFails

Spec == Init /\ [][Next]_vars

(* Scheduling: the runtime keeps polling main and every task that can make a
   step, and every armed timer elapses.  Failures and panics are never forced. *)

MainProgress ==
    \/ BuildClient \/ LoadUrls
    \/ Acquire \/ Spawn \/ EndDispatch
    \/ Await \/ EndCollect
    \/ WriteOutput

TaskProgress(i) ==
    i \in Units /\ (TaskStart(i) \/ TaskReturn(i) \/ TaskComplete(i))
TimerProgress(i) == i \in Units /\ TimerElapses(i)

Fairness ==
    /\ WF_vars(MainProgress)
    /\ \A i \in 1..MaxRows : WF_vars(TaskProgress(i)) /\ WF_vars(TimerProgress(i))

\* the inputs of a run whose URLs are all alike: completion does not read them
FairInit == Init /\ \A i \in 1..Len(rows) : rows[i] \in {"a", " "}

FairSpec == FairInit /\ [][Next]_vars /\ Fairness

----------------------------------------------------------------------------
(* Properties *)

\* main() has left the collect loop: `out` is what it hands to the writer
Handed == pc = "write" \/ (pc = "exit" /\ ret \in {"Ok", "writing output"})

Finished(i) == tasks[i].state \in {"exited", "complete"}
Collected == 1..Len(out)
TimeoutRow(url) == OutRow(url, None, None, Some("timeout"))
JoinErrorRow == OutRow("<join-error>", None, None, Some("join error: task panicked"))
Populated(r) == {f \in {"status", "error"} : IsSome(r[f])}

\* C1: whenever the dispatcher has finished, the result set holds exactly one
\* record per input URL, whichever way each unit ended.
C1_Cardinality ==
    Handed => /\ Len(out) = Len(urls)
              /\ Len(tasks) = Len(urls)
              /\ joined = Len(urls)
              /\ IsSome(written) => Len(Unwrap(written)) = Len(urls)

C1_Witness ==
    /\ Handed /\ Len(urls) = 2 /\ Len(out) = 2
    /\ \E i, j \in Units : env[i].fault /\ ~env[j].fault /\ IsSome(out[j].error)

\* C2: in every state the units launched and not yet finished, and the
\* exchanges in flight, number at most the concurrency limit.
C2_AdmissionGate ==
    /\ Cardinality(InFlight) <= concurrency
    /\ Cardinality({i \in Units : env[i].state = "inflight"}) <= concurrency
    /\ Cardinality(InFlight) + (IF permit THEN 1 ELSE 0) <= concurrency

C2_Witness ==
    /\ concurrency = 1
    /\ Len(tasks) < Len(urls)
    /\ Cardinality({i \in Units : env[i].state = "inflight"}) = 1

\* C3: every record of the result set, from the Fetch Worker or from the
\* join-failure branch, has exactly one of status and error populated.
C3_StatusXorError ==
    /\ \A k \in Collected : Cardinality(Populated(out[k])) = 1
    /\ \A i \in Units :
          (Finished(i) /\ IsOk(Unwrap(tasks[i].output)))
              => Cardinality(Populated(Unwrap(tasks[i].output)[2])) = 1

C3_Witness ==
    \E j, k \in Collected :
        /\ out[j].url = "<join-error>" /\ IsSome(out[j].error)
        /\ IsSome(out[k].status)

\* C4: with a positive concurrency limit, the client built and the URLs
\* loaded, under fair scheduling the run reaches the state where every unit
\* has been awaited and the full result set is handed over.
C4_Completes ==
    (pc = "acquire" /\ concurrency >= 1)
        ~> (pc = "write" /\ Len(out) = Len(urls)
              /\ \A i \in Units : tasks[i].state = "complete")

C4_Witness ==
    /\ pc = "write" /\ concurrency = 1 /\ Len(urls) = 2 /\ Len(out) = 2

\* C5: a Fetch Worker invocation that ends without an internal fault has
\* returned exactly one record: the response's status, or the transport
\* failure or the timeout captured in the error field.
C5_WorkerReturnsOneRow ==
    \A i \in Units :
        (Finished(i) /\ ~env[i].fault) =>
            /\ IsSome(tasks[i].output)
            /\ IsOk(Unwrap(tasks[i].output))
            /\ LET row == Unwrap(tasks[i].output)[2]
               IN  /\ env[i].state \in {"ok", "err", "abandoned"}
                   /\ env[i].state = "ok" =>
                         row.status = Some(env[i].resp.status) /\ row.error = None
                   /\ env[i].state = "err" =>
                         row.status = None /\ row.error = Some(env[i].err)
                   /\ env[i].state = "abandoned" =>
                         row.status = None /\ row.error = Some("timeout")

C5_Witness ==
    \E i, j \in Units :
        /\ Finished(i) /\ ~env[i].fault /\ env[i].state = "err"
        /\ Finished(j) /\ ~env[j].fault /\ env[j].state = "abandoned"

\* C6: a unit whose timeout elapsed before its exchange settled has the row
\* (url, no status, no length, "timeout"), and a late response leaves it so.
C6_TimeoutRow ==
    \A i \in Units :
        (Finished(i) /\ ~env[i].fault /\ env[i].state = "abandoned") =>
            /\ tasks[i].output = Some(Ok(TimeoutRow(urls[i])))
            /\ i \in Collected => out[i] = TimeoutRow(urls[i])

C6_Witness ==
    \E i \in Collected :
        ~env[i].fault /\ env[i].late /\ out[i] = TimeoutRow(urls[i])

\* the record of unit i as a function of that unit's URL and outcome alone
OwnRow(i) == IF env[i].fault THEN JoinErrorRow ELSE fetch_row(urls[i], env[i])

\* C7: every unit's record is a function of that unit's URL and outcome alone
\* (so two runs differing in unit j agree on every other record), and no
\* unit's failure ends the run before every unit has its record.
C7_Isolation ==
    /\ \A i \in Collected : out[i] = OwnRow(i)
    /\ (pc = "exit" /\ Len(tasks) > 0) => Len(out) = Len(urls)
    /\ Len(tasks) > 0 => ret \in {"running", "Ok", "writing output"}

C7_Witness ==
    /\ pc = "exit" /\ ret = "Ok" /\ Len(out) = 2
    /\ env[1].fault
    /\ IsSome(out[2].status)

\* C8: output exists only when every URL has been dispatched and every unit
\* has finished and been awaited.
C8_NoPartialResults ==
    (pc = "write" \/ IsSome(written)) =>
        /\ Len(tasks) = Len(urls)
        /\ \A i \in Units : tasks[i].state = "complete"
        /\ joined = Len(tasks)
        /\ IsSome(written) => Unwrap(written) = out

C8_Witness == IsSome(written) /\ Len(urls) = 2

\* C9: a unit that ended abnormally gets exactly one record, with the url
\* "<join-error>", no status, no length and a join-error description, and
\* the units after it are still collected.
C9_JoinErrorRow ==
    /\ \A i \in Collected : env[i].fault => out[i] = JoinErrorRow
    /\ \A i \in Units : (env[i].fault /\ Handed) => Len(out) = Len(urls)

C9_Witness ==
    /\ Handed /\ Len(out) = 2
    /\ env[1].fault /\ out[1] = JoinErrorRow
    /\ ~env[2].fault /\ out[2].url = urls[2]

\* C10: when client construction fails, main has exited with that error and
\* no URL is loaded, no semaphore exists, no permit is held, no task is
\* spawned and no output exists.
C10_SetupErrorFirst ==
    (ret = "building HTTP client") =>
        /\ pc = "exit"
        /\ ~client
        /\ urls = <<>>
        /\ sem = None
        /\ ~permit
        /\ tasks = <<>>
        /\ out = <<>>
        /\ written = None

C10_Witness == ret = "building HTTP client" /\ Len(rows) = 2 /\ concurrency = 2

\* how often row r occurs in the sequence of rows s
Count(s, r) == Cardinality({k \in 1..Len(s) : s[k] = r})
OwnRows == [i \in 1..Len(urls) |-> OwnRow(i)]

\* C11: the result set handed over is, as a multiset, the rows determined by
\* each URL and the outcome of its exchange: the interleaving of the units and
\* the concurrency limit leave no trace in it.
C11_ScheduleIndependent ==
    Handed =>
        /\ Len(env) = Len(urls)
        /\ \A k \in Collected : Count(out, out[k]) = Count(OwnRows, out[k])
        /\ \A i \in 1..Len(urls) : Count(out, OwnRow(i)) = Count(OwnRows, OwnRow(i))

C11_Witness ==
    /\ Handed /\ concurrency = 2 /\ Len(out) = 2
    /\ \E i, j \in Collected :
          /\ env[i].state = "ok" /\ IsSome(out[i].status)
          /\ env[j].state = "abandoned" /\ out[j].error = Some("timeout")

\* C12: a unit holds one permit from its launch until it finishes, on every
\* exit path; the free permits, the permits of the unfinished units and the
\* permit main has acquired for the unit it is about to launch add up to the
\* concurrency limit, and when every unit has finished all permits are free.
C12_SlotRelease ==
    IsSome(sem) =>
        /\ \A i \in Units : tasks[i].permit <=> Running(i)
        /\ pc = "spawn" <=> permit
        /\ Available + Cardinality(InFlight) + (IF permit THEN 1 ELSE 0) = concurrency
        /\ (~permit /\ \A i \in Units : Finished(i)) => Available = concurrency

C12_Witness ==
    /\ Len(tasks) = 2 /\ concurrency = 2 /\ Available = 2
    /\ \E i, j \in Units :
          /\ Finished(i) /\ env[i].fault
          /\ Finished(j) /\ ~env[j].fault /\ env[j].state = "abandoned"

Saturated == Cardinality(InFlight) >= concurrency
Dispatching == pc = "acquire" /\ Len(tasks) < Len(urls)

\* C13: a unit is launched only with a permit acquired for it; while URLs
\* remain, the acquisition is enabled exactly when fewer than the limit's
\* units are in flight, and no permit is acquired in a saturated state, so a
\* launch after saturation follows the finish of an in-flight unit.
C13_Backpressure ==
    /\ [](Dispatching => (ENABLED Acquire <=> ~Saturated))
    /\ [][Len(tasks') > Len(tasks) => (permit /\ ~permit' /\ Len(tasks') = Len(tasks) + 1)]_vars
    /\ [][(permit' /\ ~permit) => (Dispatching /\ ~Saturated)]_vars
    /\ [][(Saturated /\ Len(tasks') > Len(tasks)) => FALSE]_vars

C13_Witness ==
    /\ Dispatching /\ Saturated /\ concurrency = 1 /\ Len(tasks) = 1
    /\ ~ENABLED Acquire

\* C14: with a limit of one, no two units are ever running and no two
\* exchanges ever in flight together: a permit for the next unit is held, and
\* the next unit exists, only when every earlier unit has finished.
C14_Serialized ==
    concurrency = 1 =>
        /\ Cardinality(InFlight) <= 1
        /\ Cardinality({i \in Units : env[i].state \in {"inflight", "ok", "err"}
                                        /\ ~Finished(i)}) <= 1
        /\ \A i, k \in Units : i < k => Finished(i)
        /\ permit => \A i \in Units : Finished(i)

C14_Witness ==
    /\ concurrency = 1 /\ Len(tasks) = 2
    /\ Finished(1) /\ env[2].state = "inflight"

\* C15: the i-th unit is the only unit of the i-th URL, and a unit sends at
\* most one request, whether it ended with a response, a transport error, a
\* timeout or a panic.
C15_SingleAttempt ==
    /\ Len(tasks) <= Len(urls)
    /\ Len(env) = Len(tasks)
    /\ \A i \in Units :
          /\ tasks[i].url = urls[i]
          /\ env[i].sent <= 1
          /\ env[i].sent = 0 <=> env[i].state = "idle"
    /\ Handed => Len(tasks) = Len(urls)

C15_Witness ==
    /\ Handed /\ Len(tasks) = 2
    /\ \E i, j \in Units :
          /\ env[i].state = "err" /\ env[i].sent = 1
          /\ env[j].state = "abandoned" /\ env[j].sent = 1

OutUrls == [k \in 1..Len(out) |-> out[k].url]
NoFaults == \A i \in Units : ~env[i].fault

\* C16: every row the Fetch Worker returns carries the URL it was called
\* with, on the response, transport-error and timeout paths; in a run
\* without internal faults the url fields handed over are, as a multiset,
\* the input URLs.
C16_UrlEcho ==
    /\ \A i \in Units :
          (Finished(i) /\ ~env[i].fault) =>
              Unwrap(tasks[i].output)[2].url = tasks[i].url
    /\ (Handed /\ NoFaults) =>
          /\ \A k \in 1..Len(urls) : Count(OutUrls, urls[k]) = Count(urls, urls[k])
          /\ \A k \in Collected : Count(OutUrls, out[k].url) = Count(urls, out[k].url)

C16_Witness ==
    /\ Handed /\ NoFaults /\ Len(out) = 2 /\ urls[1] # urls[2]
    /\ \E i, j \in Collected :
          /\ env[i].state = "abandoned" /\ out[i].url = urls[i]
          /\ env[j].state = "err" /\ out[j].url = urls[j]

LenWithStatusOnly(r) == IsSome(r.len) => (IsSome(r.status) /\ r.error = None)

\* C17: in every row, a length is present only together with a status and
\* without an error; transport-error, timeout and join-failure rows carry no
\* length.
C17_LenOnlyWithStatus ==
    /\ \A k \in Collected :
          /\ LenWithStatusOnly(out[k])
          /\ IsSome(out[k].error) => out[k].len = None
          /\ (env[k].fault \/ env[k].state \in {"err", "abandoned"}) => out[k].len = None
    /\ \A i \in Units :
          (Finished(i) /\ IsOk(Unwrap(tasks[i].output)))
              => LenWithStatusOnly(Unwrap(tasks[i].output)[2])

C17_Witness ==
    \E i, j \in Collected :
        /\ out[i].len = Some(10) /\ out[i].status = Some(200)
        /\ IsSome(out[j].error) /\ out[j].len = None

\* C18: the handles are awaited in spawn order, so the k-th row of the
\* output is the row of the k-th unit: it carries the k-th input URL, or is
\* the join-failure row of the k-th unit, whichever unit finished first.
C18_LaunchOrder ==
    /\ joined = Len(out)
    /\ \A k \in Collected :
          /\ tasks[k].state = "complete"
          /\ out[k] = JoinRow(Unwrap(tasks[k].output))
          /\ IF env[k].fault THEN out[k] = JoinErrorRow ELSE out[k].url = urls[k]

C18_Witness ==
    /\ concurrency = 2 /\ Len(out) = 2 /\ urls[1] # urls[2]
    /\ out[1].url = urls[1] /\ out[2].url = urls[2]

\* C19: a limit of zero is accepted as given; with at least one URL loaded
\* main then stays at the first acquisition for ever: no permit, no unit, no
\* record, no output, no return. With no URL loaded the run reaches the
\* write with an empty result set under every limit, zero included.
C19_ZeroLimit ==
    /\ []((concurrency = 0 /\ Len(urls) > 0) =>
            /\ pc = "acquire"
            /\ sem = Some(0)
            /\ ~permit
            /\ tasks = <<>>
            /\ joined = 0
            /\ out = <<>>
            /\ written = None
            /\ ret = "running"
            /\ ~ENABLED Next)
    /\ (pc = "acquire" /\ urls = <<>>) ~> (pc = "write" /\ out = <<>> /\ tasks = <<>>)

C19_Witness ==
    /\ concurrency = 0 /\ Len(urls) = 2 /\ pc = "acquire" /\ sem = Some(0)

====
